---- MODULE Spec2Model ----
(***************************************************************************)
(* Model of wpm.py: the curses typing-test loop run_curses together with   *)
(* the pure helpers it calls (textwrap.wrap as used by wrap_terminal_lines,*)
(* calculate_row_column, the WPM formulas, is_typing_test_finished,        *)
(* draw_screen) and the exit-status dispatch of main.                      *)
(*                                                                         *)
(* Characters are one-character strings, texts are sequences of them, key  *)
(* codes are integers as returned by getch.  Wall-clock time is an integer *)
(* number of seconds that advances by ClockStep between program steps.     *)
(* The size of the curses window (screen.getmaxyx) changes inside getch,   *)
(* which then returns KEY_RESIZE.                                          *)
(***************************************************************************)
EXTENDS Integers, Sequences, FiniteSets, TLC

(* ------------------------------ bounds --------------------------------- *)
MaxLen == 4             \* longest target text
MaxScreenRows == 3      \* getmaxyx()[0] ranges over 1..MaxScreenRows
MaxCols == 3            \* getmaxyx()[1] ranges over 1..MaxCols
ClockStep == 30         \* seconds the wall clock advances in one step
MaxIdleSteps == 1       \* clock steps allowed before the first input event
MaxElapsedSteps == 2    \* clock steps allowed after the first input event
MaxCount == 25          \* largest character count of a WPM computation on its own
MaxSeconds == 61        \* largest elapsed time of a WPM computation on its own

(* --------------------------- program constants ------------------------- *)
CHARS_PER_WORD == 5
GETCH_KEY_DELETE == 127
GETCH_NO_INPUT == -1
SECONDS_PER_MINUTE == 60
KEY_BACKSPACE == 263    \* curses.KEY_BACKSPACE
KEY_RESIZE == 410       \* curses.KEY_RESIZE
TimeCap == 60           \* the literal 60 of is_typing_test_finished
OrdA == 97              \* ord('a')
OrdSpace == 32          \* ord(' ')

NotStarted == -1        \* start_time_seconds before line 125 assigns it
NoCursor == <<-1, -1>>  \* draw_screen called without cursor_index
OutOfBounds == <<-2, -2>> \* calculate_row_column raised ExitFailure

Min(a, b) == IF a < b THEN a ELSE b
Max(a, b) == IF a > b THEN a ELSE b

(* ------------------------------ target texts --------------------------- *)
Alphabet == {"a", " "}

\* concatenate_lines joins whitespace-free words with single spaces: the text
\* is non-empty (run returns before curses otherwise), has no leading or
\* trailing space and no two adjacent spaces.
concatenate_lines(t) ==
    /\ Len(t) >= 1
    /\ t[1] # " "
    /\ t[Len(t)] # " "
    /\ \A i \in 1..(Len(t) - 1) : ~(t[i] = " " /\ t[i + 1] = " ")

Texts ==
    { t \in UNION { [1..l -> Alphabet] : l \in 1..MaxLen } : concatenate_lines(t) }

ord(c) == IF c = "a" THEN OrdA ELSE OrdSpace

Keys == {OrdA, OrdSpace, GETCH_KEY_DELETE, KEY_BACKSPACE, KEY_RESIZE,
         GETCH_NO_INPUT}

(* ------------------------------ textwrap.wrap -------------------------- *)
\* TextWrapper._split for texts without hyphens: maximal runs of whitespace
\* and maximal runs of non-whitespace, in order.
RECURSIVE RunEnd(_, _)
RunEnd(t, i) ==
    IF i < Len(t) /\ ((t[i + 1] = " ") <=> (t[i] = " "))
    THEN RunEnd(t, i + 1)
    ELSE i

RECURSIVE SplitChunks(_, _)
SplitChunks(t, i) ==
    IF i > Len(t) THEN <<>>
    ELSE LET e == RunEnd(t, i)
         IN <<SubSeq(t, i, e)>> \o SplitChunks(t, e + 1)

\* inner "while chunks" loop of TextWrapper._wrap_chunks: take chunks while
\* they fit in the current line.
RECURSIVE FillLine(_, _, _)
FillLine(chunks, cur_line, width) ==
    IF chunks # <<>> /\ Len(cur_line) + Len(Head(chunks)) <= width
    THEN FillLine(Tail(chunks), cur_line \o Head(chunks), width)
    ELSE [line |-> cur_line, rest |-> chunks]

\* TextWrapper._handle_long_word with break_long_words=True (no hyphens).
HandleLongWord(chunks, cur_line, width) ==
    LET space_left == IF width < 1 THEN 1 ELSE width - Len(cur_line)
        chunk == Head(chunks)
    IN [line |-> cur_line \o SubSeq(chunk, 1, space_left),
        rest |-> <<SubSeq(chunk, space_left + 1, Len(chunk))>> \o Tail(chunks)]

\* TextWrapper._wrap_chunks with drop_whitespace=False, no indent, no
\* max_lines.
RECURSIVE WrapChunks(_, _)
WrapChunks(chunks, width) ==
    IF chunks = <<>> THEN <<>>
    ELSE LET f == FillLine(chunks, <<>>, width)
             g == IF f.rest # <<>> /\ Len(Head(f.rest)) > width
                  THEN HandleLongWord(f.rest, f.line, width)
                  ELSE f
         IN (IF g.line # <<>> THEN <<g.line>> ELSE <<>>)
                \o WrapChunks(g.rest, width)

textwrap_wrap(t, width) == WrapChunks(SplitChunks(t, 1), width)

RECURSIVE SumLen(_)
SumLen(lines) == IF lines = <<>> THEN 0 ELSE Len(Head(lines)) + SumLen(Tail(lines))

\* wrap_terminal_lines: the first term_dims.rows wrapped lines and their
\* total length.
wrap_terminal_lines(t, dims) ==
    LET all == textwrap_wrap(t, dims.columns)
        wrapped_terminal_lines == SubSeq(all, 1, Min(dims.rows, Len(all)))
    IN [lines |-> wrapped_terminal_lines,
        total |-> SumLen(wrapped_terminal_lines)]

(* --------------------------- calculate_row_column ---------------------- *)
\* variant: "<=" where the source compares with "<"
RECURSIVE RowColumnFrom_OffByOne(_, _, _)
RowColumnFrom_OffByOne(lines, row, remaining_index) ==
    IF row >= Len(lines) THEN OutOfBounds
    ELSE IF remaining_index <= Len(lines[row + 1])
         THEN <<row, remaining_index>>
         ELSE RowColumnFrom_OffByOne(lines, row + 1,
                                     remaining_index - Len(lines[row + 1]))

\* rows are zero-based as in the source; remaining_index is the column.
RECURSIVE RowColumnFrom(_, _, _)
RowColumnFrom(lines, row, remaining_index) ==
    IF row >= Len(lines) THEN OutOfBounds
    ELSE IF remaining_index < Len(lines[row + 1])
         THEN <<row, remaining_index>>
         ELSE RowColumnFrom(lines, row + 1, remaining_index - Len(lines[row + 1]))

calculate_row_column(lines, index) == RowColumnFrom(lines, 0, index)

(* ------------------------------ WPM formulas --------------------------- *)
\* int() truncates toward zero.
TruncDiv(a, b) == IF a >= 0 THEN a \div b ELSE -((-a) \div b)

\* variant: the elapsed seconds are not converted to minutes
calculate_gross_wpm_PerSecond(num_correct, seconds) ==
    TruncDiv(num_correct, CHARS_PER_WORD * seconds)

\* int((correct / 5.0) / (seconds / 60.0)), in exact arithmetic
calculate_gross_wpm(num_correct, seconds) ==
    TruncDiv(num_correct * SECONDS_PER_MINUTE, CHARS_PER_WORD * seconds)

\* variant: net WPM without the max(0, ...) floor
calculate_net_wpm_NoFloor(num_incorrect, num_correct, seconds) ==
    LET gross_wpm == calculate_gross_wpm(num_correct, seconds)
    IN TruncDiv(gross_wpm * seconds - num_incorrect * SECONDS_PER_MINUTE, seconds)

\* max(0, int(gross - incorrect / (seconds / 60.0))), in exact arithmetic
calculate_net_wpm(num_incorrect, num_correct, seconds) ==
    LET gross_wpm == calculate_gross_wpm(num_correct, seconds)
    IN Max(0, TruncDiv(gross_wpm * seconds - num_incorrect * SECONDS_PER_MINUTE,
                       seconds))

\* the three numbers formatted into 'Time: ..s Errors: ... Wpm: ...'
create_wpm_summary_str(num_incorrect, num_correct, seconds) ==
    [time |-> seconds, errors |-> num_incorrect,
     wpm |-> calculate_net_wpm(num_incorrect, num_correct, seconds)]

NoSummary == [time |-> 0, errors |-> 0, wpm |-> 0]

(* --------------------------- finish check, drawing --------------------- *)
EndCharIndex(t, dims) == Min(wrap_terminal_lines(t, dims).total, Len(t))

\* variant: the finish check without the time cap
is_typing_test_finished_NoCap(t, dims, next_index, seconds) ==
    next_index >= EndCharIndex(t, dims)

\* variant: ">" where the source compares the index with ">="
is_typing_test_finished_Strict(t, dims, next_index, seconds) ==
    seconds >= TimeCap \/ next_index > EndCharIndex(t, dims)

is_typing_test_finished(t, dims, next_index, seconds) ==
    seconds >= TimeCap \/ next_index >= EndCharIndex(t, dims)

\* error_char_indices as a Python list
InList(x, list) == \E i \in 1..Len(list) : list[i] = x

RECURSIVE ListRemove(_, _)
ListRemove(list, x) ==
    IF list = <<>> THEN <<>>
    ELSE IF Head(list) = x THEN Tail(list)
         ELSE <<Head(list)>> \o ListRemove(Tail(list), x)

\* variant: draw_screen that highlights every recorded index, visible or not
draw_screen_NoGuard(dims, t, errors, cursor_index) ==
    LET w == wrap_terminal_lines(t, dims)
    IN [highlighted |->
            { calculate_row_column(w.lines, errors[i]) : i \in 1..Len(errors) },
        cursor |-> IF cursor_index = -1 THEN NoCursor
                   ELSE calculate_row_column(w.lines, cursor_index)]

\* draw_screen: the cells highlighted as errors and the cursor position.
\* cursor_index = -1 stands for cursor_index=None.
draw_screen(dims, t, errors, cursor_index) ==
    LET w == wrap_terminal_lines(t, dims)
    IN [highlighted |->
            { calculate_row_column(w.lines, errors[i]) :
                 i \in { j \in 1..Len(errors) : errors[j] < w.total } },
        cursor |-> IF cursor_index = -1 THEN NoCursor
                   ELSE calculate_row_column(w.lines, cursor_index)]

\* lookup_terminal_dimensions: one row is reserved for the footer
lookup_terminal_dimensions(size) == [rows |-> size[1] - 1, columns |-> size[2]]

ScreenSizes == (1..MaxScreenRows) \X (1..MaxCols)

\* no WPM computation is being checked on its own
NoProbe == [correct |-> 0, incorrect |-> 0, seconds |-> 0,
            gross |-> 0, net |-> 0, computed |-> FALSE]

(* ------------------------------- state --------------------------------- *)
VARIABLES
    input_str,            \* the target text
    screen_size,          \* screen.getmaxyx(): <<rows, columns>> of the window
    pc,                   \* "start" (line 121), "intro" (in getch, line 124),
                          \* "handle" (line 128), "getch" (in getch, line 152),
                          \* "finished" (inner loop, line 147), "exit"
    term_dims,            \* the loop's TerminalDimensions
    next_char_index,
    error_char_indices,
    user_input,           \* last value returned by getch
    now,                  \* time.time()
    start_time_seconds,
    seconds_elapsed,
    wpm_summary_str,
    cursor,               \* result of the last draw_screen
    highlighted,
    exception,            \* the exception that ended run(), "none" before
    exit_code,            \* "running", "EX_OK", "EX_IOERR", "traceback"
    probe                 \* arguments and results of a WPM computation

vars == <<input_str, screen_size, pc, term_dims, next_char_index, error_char_indices,
          user_input, now, start_time_seconds, seconds_elapsed,
          wpm_summary_str, cursor, highlighted, exception, exit_code, probe>>

Init ==
    /\ input_str \in Texts
    /\ screen_size \in ScreenSizes
    /\ pc = "start"
    /\ term_dims = [rows |-> 0, columns |-> 1]
    /\ next_char_index = 0
    /\ error_char_indices = <<>>
    /\ user_input = GETCH_NO_INPUT
    /\ now = 0
    /\ start_time_seconds = NotStarted
    /\ seconds_elapsed = 0
    /\ wpm_summary_str = NoSummary
    /\ cursor = NoCursor
    /\ highlighted = {}
    /\ exception = "none"
    /\ exit_code = "running"
    /\ probe = NoProbe

(* ----------------------- lines 128-139: one input event ------------------ *)
TypingState(next_index, errors, ok) ==
    [next |-> next_index, errors |-> errors, ok |-> ok]

\* variant: backspace without the max(0, ...) floor
HandleBackspace_NoFloor(next_index, errors) ==
    LET prev_char_index == next_index - 1
    IN TypingState(prev_char_index,
                   IF InList(prev_char_index, errors)
                   THEN ListRemove(errors, prev_char_index)
                   ELSE errors,
                   TRUE)

\* variant: backspace that keeps the error recorded for the position
HandleBackspace_KeepsError(next_index, errors) ==
    TypingState(Max(0, next_index - 1), errors, TRUE)

\* variant: backspace that clears the index it leaves, not the one it
\* steps back onto
HandleBackspace_RemovesCurrent(next_index, errors) ==
    TypingState(Max(0, next_index - 1),
                IF InList(next_index, errors)
                THEN ListRemove(errors, next_index)
                ELSE errors,
                TRUE)

\* lines 130-134
HandleBackspace(next_index, errors) ==
    LET prev_char_index == Max(0, next_index - 1)
    IN TypingState(prev_char_index,
                   IF InList(prev_char_index, errors)
                   THEN ListRemove(errors, prev_char_index)
                   ELSE errors,
                   TRUE)

\* variant: a mismatched character is recorded but the index stays
HandleChar_StaysOnError(key, t, next_index, errors) ==
    IF next_index >= Len(t)
    THEN TypingState(next_index, errors, FALSE)
    ELSE IF key # ord(t[next_index + 1])
         THEN TypingState(next_index, Append(errors, next_index), TRUE)
         ELSE TypingState(next_index + 1, errors, TRUE)

\* variant: every typed character is recorded as an error
HandleChar_AlwaysRecords(key, t, next_index, errors) ==
    IF next_index >= Len(t)
    THEN TypingState(next_index, errors, FALSE)
    ELSE TypingState(next_index + 1, Append(errors, next_index), TRUE)

\* lines 135-139; input_str[next_char_index] raises IndexError past the end
HandleChar(key, t, next_index, errors) ==
    IF next_index >= Len(t)
    THEN TypingState(next_index, errors, FALSE)
    ELSE LET correct_next_char == t[next_index + 1]
         IN TypingState(next_index + 1,
                        IF key # ord(correct_next_char)
                        THEN Append(errors, next_index)
                        ELSE errors,
                        TRUE)

IsNoOpInput(key) == key = GETCH_NO_INPUT \/ key = KEY_RESIZE
IsBackspace(key) == key = GETCH_KEY_DELETE \/ key = KEY_BACKSPACE

\* variant: KEY_RESIZE is judged like a typed character
HandleInput_ResizeTyped(key, t, next_index, errors) ==
    IF key = GETCH_NO_INPUT THEN TypingState(next_index, errors, TRUE)
    ELSE IF IsBackspace(key) THEN HandleBackspace(next_index, errors)
    ELSE HandleChar(key, t, next_index, errors)

\* lines 128-139
HandleInput(key, t, next_index, errors) ==
    IF IsNoOpInput(key) THEN TypingState(next_index, errors, TRUE)
    ELSE IF IsBackspace(key) THEN HandleBackspace(next_index, errors)
    ELSE HandleChar(key, t, next_index, errors)

(* -------------------------------- actions ------------------------------ *)
\* screen.getch(): one of the allowed results; a resize of the window is
\* reported as KEY_RESIZE
getch(allowed) ==
    \E key \in allowed :
       /\ user_input' = key
       /\ IF key = KEY_RESIZE
          THEN screen_size' \in ScreenSizes
          ELSE screen_size' = screen_size

\* variant: main without the "except KeyboardInterrupt" clause
main_exit_code_InterruptFails(exc) ==
    IF exc = "ExitSuccess" THEN "EX_OK"
    ELSE IF exc = "ExitFailure" THEN "EX_IOERR"
    ELSE "traceback"

\* lines 197-206: the exit status main selects for an exception that left
\* run(); an exception it does not catch ends the process with a traceback
main_exit_code(exc) ==
    IF exc = "KeyboardInterrupt" THEN "EX_OK"
    ELSE IF exc = "ExitSuccess" THEN "EX_OK"
    ELSE IF exc = "ExitFailure" THEN "EX_IOERR"
    ELSE "traceback"

\* an exception leaves run_curses and main ends the process
Exit(exc) ==
    /\ pc' = "exit"
    /\ exception' = exc
    /\ exit_code' = main_exit_code(exc)

\* lines 121-123: first dimension lookup and the intro frame
Startup ==
    /\ pc = "start"
    /\ LET dims == lookup_terminal_dimensions(screen_size)
           d == draw_screen(dims, input_str, error_char_indices, next_char_index)
       IN /\ term_dims' = dims
          /\ cursor' = d.cursor
          /\ highlighted' = d.highlighted
          /\ IF d.cursor = OutOfBounds
             THEN Exit("ExitFailure")
             ELSE pc' = "intro" /\ UNCHANGED <<exception, exit_code>>
    /\ UNCHANGED <<probe, input_str, screen_size, next_char_index, error_char_indices, user_input,
                   now, start_time_seconds, seconds_elapsed, wpm_summary_str>>

\* lines 124-126: the blocking getch of the intro frame returns, the clock is
\* read, the poll timeout is set
IntroGetch ==
    /\ pc = "intro"
    /\ getch(Keys \ {GETCH_NO_INPUT})
    /\ start_time_seconds' = now
    /\ pc' = "handle"
    /\ UNCHANGED <<probe, input_str, term_dims, next_char_index, error_char_indices,
                   now, seconds_elapsed, wpm_summary_str, cursor, highlighted,
                   exception, exit_code>>

\* lines 128-151: one pass of the loop body, up to the getch of line 152 or
\* to the head of the inner loop at line 147
Tick ==
    /\ pc = "handle"
    /\   LET h == HandleInput(user_input, input_str, next_char_index,
                              error_char_indices)
             dims == lookup_terminal_dimensions(screen_size)
             elapsed == now - start_time_seconds
             num_incorrect_chars_typed == Len(h.errors)
             num_correct_chars_typed == h.next - num_incorrect_chars_typed
         IN /\ next_char_index' = h.next
            /\ error_char_indices' = h.errors
            /\ IF ~h.ok
               THEN \* IndexError at line 136
                    /\ Exit("IndexError")
                    /\ UNCHANGED <<term_dims, seconds_elapsed, wpm_summary_str,
                                   cursor, highlighted>>
               ELSE IF elapsed = 0
               THEN \* ZeroDivisionError in minutes_elapsed's caller, line 70
                    /\ term_dims' = dims
                    /\ seconds_elapsed' = elapsed
                    /\ Exit("ZeroDivisionError")
                    /\ UNCHANGED <<wpm_summary_str, cursor, highlighted>>
               ELSE /\ seconds_elapsed' = elapsed
                    /\ wpm_summary_str' =
                          create_wpm_summary_str(num_incorrect_chars_typed,
                                                 num_correct_chars_typed, elapsed)
                    /\ IF is_typing_test_finished(input_str, dims, h.next, elapsed)
                       THEN \* lines 146-147: enter the inner loop
                            /\ term_dims' = dims
                            /\ pc' = "finished"
                            /\ UNCHANGED <<cursor, highlighted, exception,
                                           exit_code>>
                       ELSE \* line 151, blocked in getch at line 152
                            LET d == draw_screen(dims, input_str, h.errors, h.next)
                            IN /\ term_dims' = dims
                               /\ cursor' = d.cursor
                               /\ highlighted' = d.highlighted
                               /\ IF d.cursor = OutOfBounds
                                  THEN Exit("ExitFailure")
                                  ELSE /\ pc' = "getch"
                                       /\ UNCHANGED <<exception, exit_code>>
    /\ UNCHANGED <<probe, input_str, screen_size, user_input, now, start_time_seconds>>

\* line 152: the poll returns a key, a resize, or no input after 50 ms
LoopGetch ==
    /\ pc = "getch"
    /\ getch(Keys)
    /\ pc' = "handle"
    /\ UNCHANGED <<probe, input_str, term_dims, next_char_index, error_char_indices,
                   now, start_time_seconds, seconds_elapsed, wpm_summary_str,
                   cursor, highlighted, exception, exit_code>>

\* variant: any input event in the inner loop ends the program successfully
FinishedLoop_ExitsOnKey ==
    /\ pc = "finished"
    /\ getch(Keys)
    /\ Exit("ExitSuccess")
    /\ UNCHANGED <<probe, input_str, term_dims, next_char_index, error_char_indices,
                   now, start_time_seconds, seconds_elapsed, wpm_summary_str,
                   cursor, highlighted>>

\* variant: the inner loop recomputes the summary on every pass
FinishedLoop_RefreshesSummary ==
    /\ pc = "finished"
    /\ LET dims == lookup_terminal_dimensions(screen_size)
           d == draw_screen(dims, input_str, error_char_indices, -1)
       IN /\ term_dims' = dims
          /\ cursor' = d.cursor
          /\ highlighted' = d.highlighted
    /\ wpm_summary_str' =
          create_wpm_summary_str(Len(error_char_indices),
                                 next_char_index - Len(error_char_indices),
                                 now - start_time_seconds)
    /\ getch(Keys)
    /\ UNCHANGED <<probe, input_str, pc, next_char_index, error_char_indices, now,
                   start_time_seconds, seconds_elapsed, exception, exit_code>>

\* variant: the inner loop runs once and hands the key to the main loop
FinishedLoop_FallsThrough ==
    /\ pc = "finished"
    /\ LET dims == lookup_terminal_dimensions(screen_size)
           d == draw_screen(dims, input_str, error_char_indices, -1)
       IN /\ term_dims' = dims
          /\ cursor' = d.cursor
          /\ highlighted' = d.highlighted
    /\ getch(Keys)
    /\ pc' = "handle"
    /\ UNCHANGED <<probe, input_str, next_char_index, error_char_indices, now,
                   start_time_seconds, seconds_elapsed, wpm_summary_str,
                   exception, exit_code>>

\* lines 147-150: one pass of the inner loop: dimension lookup, outro frame,
\* getch returns
FinishedLoop ==
    /\ pc = "finished"
    /\ LET dims == lookup_terminal_dimensions(screen_size)
           d == draw_screen(dims, input_str, error_char_indices, -1)
       IN /\ term_dims' = dims
          /\ cursor' = d.cursor
          /\ highlighted' = d.highlighted
    /\ getch(Keys)
    /\ UNCHANGED <<probe, input_str, pc, next_char_index, error_char_indices, now,
                   start_time_seconds, seconds_elapsed, wpm_summary_str,
                   exception, exit_code>>

\* lines 194-202: SIGTERM raises ExitSuccess in the handler, Ctrl-C raises
\* KeyboardInterrupt, wherever run_curses is
Interrupt ==
    /\ pc # "exit"
    /\ \E sig \in {"SIGINT", "SIGTERM"} :
         Exit(IF sig = "SIGINT" THEN "KeyboardInterrupt" ELSE "ExitSuccess")
    /\ UNCHANGED <<probe, input_str, screen_size, term_dims, next_char_index, error_char_indices,
                   user_input, now, start_time_seconds, seconds_elapsed,
                   wpm_summary_str, cursor, highlighted>>

\* the wall clock read by time.time()
ClockAdvance ==
    /\ pc # "exit"
    /\ IF start_time_seconds = NotStarted
       THEN now + ClockStep <= MaxIdleSteps * ClockStep
       ELSE now + ClockStep - start_time_seconds <= MaxElapsedSteps * ClockStep
    /\ now' = now + ClockStep
    /\ UNCHANGED <<probe, input_str, screen_size, pc, term_dims, next_char_index, error_char_indices,
                   user_input, start_time_seconds, seconds_elapsed,
                   wpm_summary_str, cursor, highlighted, exception, exit_code>>

Next ==
    \/ Startup
    \/ IntroGetch
    \/ Tick
    \/ LoopGetch
    \/ FinishedLoop
    \/ Interrupt
    \/ ClockAdvance

Spec == Init /\ [][Next]_vars

(* ------------------- the WPM formulas on their own ---------------------- *)
loop_vars == <<input_str, screen_size, pc, term_dims, next_char_index,
               error_char_indices, user_input, now, start_time_seconds,
               seconds_elapsed, wpm_summary_str, cursor, highlighted,
               exception, exit_code>>

\* the arguments of create_wpm_summary_str range over all counts up to
\* MaxCount and all positive whole seconds up to MaxSeconds
InitWpm ==
    /\ input_str = <<"a">>
    /\ screen_size = <<2, 1>>
    /\ pc = "start"
    /\ term_dims = [rows |-> 0, columns |-> 1]
    /\ next_char_index = 0
    /\ error_char_indices = <<>>
    /\ user_input = GETCH_NO_INPUT
    /\ now = 0
    /\ start_time_seconds = NotStarted
    /\ seconds_elapsed = 0
    /\ wpm_summary_str = NoSummary
    /\ cursor = NoCursor
    /\ highlighted = {}
    /\ exception = "none"
    /\ exit_code = "running"
    /\ probe \in [correct : 0..MaxCount, incorrect : 0..MaxCount,
                  seconds : 1..MaxSeconds, gross : {0}, net : {0},
                  computed : {FALSE}]

\* lines 80-81: create_wpm_summary_str evaluates both formulas
ComputeWpm ==
    /\ ~probe.computed
    /\ probe' = [probe EXCEPT
                   !.gross = calculate_gross_wpm(probe.correct, probe.seconds),
                   !.net = calculate_net_wpm(probe.incorrect, probe.correct,
                                             probe.seconds),
                   !.computed = TRUE]
    /\ UNCHANGED loop_vars

NextWpm == ComputeWpm

SpecWpm == InitWpm /\ [][NextWpm]_vars

\* the wall clock keeps running, and the loop keeps polling: getch returns
\* within its 50 ms timeout and the loop body runs to the next getch
SpecFair ==
    /\ Spec
    /\ WF_vars(Tick)
    /\ WF_vars(LoopGetch)
    /\ WF_vars(ClockAdvance)

(* ------------------------------ properties ----------------------------- *)
\* a step of Tick: the loop body ran (to the next getch, to the inner loop,
\* or to an exception); Interrupt is the only step that exits with EX_OK
TickStep == pc = "handle" /\ pc' # "handle" /\ exit_code' # "EX_OK"

Clamp(x, lo, hi) == Max(lo, Min(x, hi))

\* C1: in every reachable state 0 <= next_index <= length(target text), and
\* every index recorded as incorrect is >= 0 and < next_index.
C1_IndexInvariant ==
    /\ 0 <= next_char_index
    /\ next_char_index <= Len(input_str)
    /\ \A i \in 1..Len(error_char_indices) :
          /\ error_char_indices[i] >= 0
          /\ error_char_indices[i] < next_char_index

\* the whole text was typed, every character wrongly
C1_Witness ==
    /\ next_char_index = Len(input_str)
    /\ Len(error_char_indices) = next_char_index
    /\ next_char_index >= 2

C3_KeyInFinishedExits ==
    [][(pc = "finished" /\ now' = now) => pc' = "exit"]_vars

\* C3 (amended): in Finished every input event leaves the loop in Finished;
\* the loop ends only by an interruption, which consumes no input event and
\* exits with the success status.
C3_FinishedUntilInterrupt ==
    [][pc = "finished"
         => \/ pc' = "finished"
            \/ /\ pc' = "exit"
               /\ exit_code' = "EX_OK"
               /\ user_input' = user_input]_vars

\* a backspace arrived in Finished (a handled backspace never leaves
\* next_index at the end of the text)
C3_Witness ==
    /\ pc = "finished"
    /\ next_char_index = Len(input_str)
    /\ IsBackspace(user_input)

\* C4 (as claimed): a resize event received while NotStarted neither starts
\* the clock nor leaves NotStarted.
C4_ResizeKeepsNotStarted ==
    [][(pc = "intro" /\ user_input' = KEY_RESIZE)
         => (pc' = "intro" /\ start_time_seconds' = NotStarted)]_vars

\* C5: a handled backspace with next_index > 0 decreases next_index by one
\* and removes exactly the new next_index from the incorrect list; with
\* next_index = 0 it changes neither.
C5_Backspace ==
    [][(TickStep /\ user_input \in {GETCH_KEY_DELETE, KEY_BACKSPACE})
         => IF next_char_index > 0
            THEN LET kept(x) == x # next_char_index - 1
                 IN /\ next_char_index' = next_char_index - 1
                    /\ error_char_indices' = SelectSeq(error_char_indices, kept)
            ELSE /\ next_char_index' = next_char_index
                 /\ error_char_indices' = error_char_indices]_vars

\* a backspace was handled and an earlier error is still recorded
C5_Witness ==
    /\ pc = "getch"
    /\ user_input = GETCH_KEY_DELETE
    /\ next_char_index = 1
    /\ error_char_indices = <<0>>

\* C6: a handled character that is neither backspace, resize nor no-input
\* increases next_index by one, and appends the old next_index to the
\* incorrect list if and only if it differs from the target character there.
C6_Character ==
    [][(TickStep /\ user_input \notin {GETCH_KEY_DELETE, KEY_BACKSPACE,
                                       KEY_RESIZE, GETCH_NO_INPUT})
         => /\ next_char_index < Len(input_str)
            /\ next_char_index' = next_char_index + 1
            /\ error_char_indices' =
                 IF user_input # ord(input_str[next_char_index + 1])
                 THEN Append(error_char_indices, next_char_index)
                 ELSE error_char_indices]_vars

\* a space was typed where the text has an "a", and recorded
C6_Witness ==
    /\ pc = "getch"
    /\ user_input = OrdSpace
    /\ next_char_index >= 1
    /\ input_str[next_char_index] = "a"
    /\ InList(next_char_index - 1, error_char_indices)

\* C7: from every reachable typing state with next_index > 0, a backspace
\* followed by the correct character for that position gives back the same
\* next_index, leaves the position out of the incorrect list, and the number
\* of recorded errors does not grow; it shrinks by one exactly when the
\* position was recorded.
C7_BackspaceCorrective ==
    next_char_index > 0 =>
        LET b == HandleBackspace(next_char_index, error_char_indices)
            c == HandleChar(ord(input_str[b.next + 1]), input_str,
                            b.next, b.errors)
            was_incorrect == InList(next_char_index - 1, error_char_indices)
        IN /\ c.ok
           /\ c.next = next_char_index
           /\ ~InList(next_char_index - 1, c.errors)
           /\ Len(c.errors) =
                Len(error_char_indices) - (IF was_incorrect THEN 1 ELSE 0)

\* a position recorded as incorrect is about to be taken back
C7_Witness ==
    /\ pc = "handle"
    /\ IsBackspace(user_input)
    /\ next_char_index > 0
    /\ InList(next_char_index - 1, error_char_indices)
    /\ Len(error_char_indices) >= 2

\* C8: a handled no-input poll or resize event changes neither next_index
\* nor the incorrect list, and neither does any pass of the inner loop.
C8_NoOpInput ==
    [][(\/ TickStep /\ user_input \in {GETCH_NO_INPUT, KEY_RESIZE}
        \/ pc = "finished")
         => /\ next_char_index' = next_char_index
            /\ error_char_indices' = error_char_indices]_vars

\* a resize event was handled in the middle of a session with errors
C8_Witness ==
    /\ pc = "getch"
    /\ user_input = KEY_RESIZE
    /\ next_char_index > 0
    /\ error_char_indices # <<>>

\* C9 (as claimed): once the clock has started the session eventually
\* reaches Finished, unless it is interrupted.
C9_EventuallyFinished ==
    (start_time_seconds # NotStarted)
        ~> (pc = "finished" \/ exit_code = "EX_OK")

\* C10 (as claimed): every render that places a cursor puts it at
\* locate(visible lines, clamp(next_index, 0, visible length)) and never
\* fails with the out-of-bounds error.
C10_CursorRenderNeverFails ==
    /\ exit_code # "EX_IOERR"
    /\ pc \in {"intro", "getch"} =>
          LET w == wrap_terminal_lines(input_str, term_dims)
          IN /\ cursor # OutOfBounds
             /\ cursor = calculate_row_column(
                             w.lines, Clamp(next_char_index, 0, w.total))

\* C11 (as claimed): the WPM figures are never evaluated with
\* elapsed_seconds equal to zero, so no division by zero is reachable.
C11_NoZeroElapsedWpm ==
    exception # "ZeroDivisionError"

\* C12: for all non-negative counts and positive elapsed seconds the
\* computed net WPM is >= 0.
C12_NetWpmFloor ==
    probe.computed => probe.net >= 0

\* the error rate exceeds the gross rate and the net figure is clamped to 0
C12_Witness ==
    /\ probe.computed
    /\ probe.correct > 0
    /\ probe.gross * probe.seconds < probe.incorrect * SECONDS_PER_MINUTE
    /\ probe.net = 0

\* the reference formulas, with floor where the code truncates
ReferenceGross(c, secs) ==
    (c * SECONDS_PER_MINUTE) \div (CHARS_PER_WORD * secs)

ReferenceNet(i, c, secs) ==
    Max(0, (ReferenceGross(c, secs) * secs - i * SECONDS_PER_MINUTE) \div secs)

C14_InterruptExitsSuccess ==
    /\ pc \in {"intro", "handle", "getch", "finished"} => ENABLED Interrupt
    /\ exception \in {"KeyboardInterrupt", "ExitSuccess"}
          => (pc = "exit" /\ exit_code = "EX_OK")

\* Ctrl-C arrived in Finished: the last pass of the main loop completed the
\* text and computed a summary
C14_Witness ==
    /\ exception = "KeyboardInterrupt"
    /\ next_char_index = Len(input_str)
    /\ seconds_elapsed > 0

\* a frame has been drawn from the current term_dims and incorrect list: the
\* intro frame, a frame of the main loop, a frame of the inner loop (which
\* alone draws no cursor), or a frame whose cursor lookup raised
FrameDrawn ==
    \/ pc \in {"intro", "handle", "getch"}
    \/ pc = "finished" /\ cursor = NoCursor
    \/ exception = "ExitFailure"

\* C15: every drawn frame highlights exactly the cells calculate_row_column
\* returns for the recorded indices below the visible wrapped length, each
\* holding the target character of its index; indices at or beyond that
\* length are skipped and raise nothing.
C15_Highlights ==
    FrameDrawn =>
        LET w == wrap_terminal_lines(input_str, term_dims)
            visible == { j \in 1..Len(error_char_indices) :
                            error_char_indices[j] < w.total }
        IN /\ OutOfBounds \notin highlighted
           /\ highlighted = { calculate_row_column(w.lines, error_char_indices[j]) :
                                 j \in visible }
           /\ \A j \in visible :
                 LET rc == calculate_row_column(w.lines, error_char_indices[j])
                 IN w.lines[rc[1] + 1][rc[2] + 1]
                       = input_str[error_char_indices[j] + 1]

\* the inner loop drew a frame in which one recorded index is visible and
\* another lies beyond the visible wrapped length
C15_Witness ==
    /\ pc = "finished"
    /\ cursor = NoCursor
    /\ highlighted # {}
    /\ \E j \in 1..Len(error_char_indices) :
          error_char_indices[j] >= wrap_terminal_lines(input_str, term_dims).total

\* C16: for the visible wrapped lines of every text and terminal size and
\* every index i below their total length, calculate_row_column returns a
\* (row, column) inside the lines whose character is text[i]; for every
\* index at or beyond the total length it raises the out-of-bounds error.
C16_LocateConsistency ==
    LET w == wrap_terminal_lines(input_str, term_dims)
    IN \A i \in 0..(Len(input_str) + 1) :
          LET rc == calculate_row_column(w.lines, i)
          IN IF i < w.total
             THEN /\ rc # OutOfBounds
                  /\ rc[1] >= 0 /\ rc[1] < Len(w.lines)
                  /\ rc[2] >= 0 /\ rc[2] < Len(w.lines[rc[1] + 1])
                  /\ w.lines[rc[1] + 1][rc[2] + 1] = input_str[i + 1]
             ELSE rc = OutOfBounds

\* the cursor was placed on the second of the visible lines, which hold only
\* a prefix of the text
C16_Witness ==
    /\ pc = "getch"
    /\ cursor[1] = 1
    /\ wrap_terminal_lines(input_str, term_dims).total < Len(input_str)

\* C17: in Finished, next_index, the incorrect list and the WPM summary never
\* change again and the loop never returns to the main loop.
C17_FinishedAbsorbing ==
    [][pc = "finished"
         => /\ pc' \in {"finished", "exit"}
            /\ next_char_index' = next_char_index
            /\ error_char_indices' = error_char_indices
            /\ wpm_summary_str' = wpm_summary_str]_vars

\* the session finished on a viewport that was too small, the inner loop has
\* since drawn a frame on a viewport that holds the next index, and time has
\* passed since the summary was computed
C17_Witness ==
    /\ pc = "finished"
    /\ cursor = NoCursor
    /\ next_char_index < EndCharIndex(input_str, term_dims)
    /\ wpm_summary_str.time < TimeCap
    /\ now - start_time_seconds > wpm_summary_str.time

\* C18: whenever a character other than backspace is about to be judged,
\* next_index is less than the length of the text, and the lookup of the
\* expected character never raises IndexError.
C18_JudgedInRange ==
    /\ exception # "IndexError"
    /\ (pc = "handle" /\ user_input \notin {GETCH_NO_INPUT, KEY_RESIZE,
                                            GETCH_KEY_DELETE, KEY_BACKSPACE})
          => next_char_index < Len(input_str)

\* the last character of a text is about to be judged after earlier ticks
C18_Witness ==
    /\ pc = "handle"
    /\ user_input = OrdA
    /\ next_char_index = Len(input_str) - 1
    /\ next_char_index >= 2
    /\ seconds_elapsed > 0

\* C19: after the first input event no frame fails on its cursor, and every
\* frame of the main loop is drawn with the dimensions looked up in that
\* tick, with next_index below the visible wrapped length and the cursor at
\* the position calculate_row_column returns for it.
C19_CursorAfterFinishCheck ==
    /\ exception = "ExitFailure" => start_time_seconds = NotStarted
    /\ pc = "getch" =>
          LET w == wrap_terminal_lines(input_str, term_dims)
          IN /\ term_dims = [rows |-> screen_size[1] - 1,
                             columns |-> screen_size[2]]
             /\ next_char_index < w.total
             /\ cursor # OutOfBounds
             /\ cursor = calculate_row_column(w.lines, next_char_index)

\* a resize tick drew the cursor on a viewport too small for the whole text
C19_Witness ==
    /\ pc = "getch"
    /\ user_input = KEY_RESIZE
    /\ next_char_index >= 1
    /\ wrap_terminal_lines(input_str, term_dims).total < Len(input_str)

\* C20: the incorrect list holds no index twice, so its length is the size
\* of its set of indices, incorrect_count <= next_index and correct_count is
\* never negative.
C20_NoDuplicateErrors ==
    /\ Cardinality({ error_char_indices[j] : j \in 1..Len(error_char_indices) })
          = Len(error_char_indices)
    /\ Len(error_char_indices) <= next_char_index
    /\ next_char_index - Len(error_char_indices) >= 0

\* a session with both correct and incorrect characters behind the cursor
C20_Witness ==
    /\ pc = "getch"
    /\ Len(error_char_indices) >= 2
    /\ Len(error_char_indices) < next_char_index

====
